---- MODULE Spec2Model ----
(***************************************************************************)
(* Model of backend/chainlit/callbacks.py: the decorator-style registration *)
(* hooks that store user callbacks into the process-wide config.code object *)
(* and the closures they build (with_parent_id, the action decorator).      *)
(***************************************************************************)
EXTENDS Naturals, Sequences, FiniteSets, TLC

VARIABLES
    config,     \* config.code: one field per callback slot, plus the action_callbacks dict
    before,     \* history: config.code as it was when the last call started
    providers,  \* the OAuth providers the environment configures right now
    call,       \* the last call: its name, key, argument, result and what it ran
    latest,     \* history: per hook, the function of its most recent successful registration
    ncalls      \* number of calls made so far

vars == <<config, before, providers, call, latest, ncalls>>

----------------------------------------------------------------------------
(* Bounds and the small input sets                                          *)

MaxCalls == 2

\* user functions, told apart by identity; arity is what inspect.signature sees
Funcs ==
    { [kind |-> "function", id |-> "f", arity |-> 0],
      [kind |-> "function", id |-> "g", arity |-> 1],
      [kind |-> "function", id |-> "h", arity |-> 2] }

Messages ==
    { [id |-> "m1", content |-> "hello"],
      [id |-> "m2", content |-> "bye"] }

Names == {"a1", "a2"}

Providers == {"github"}

WindowData == {"d1"}

----------------------------------------------------------------------------
(* Values                                                                   *)

None == [kind |-> "none"]

ValueError == [kind |-> "ValueError"]

\* the keyword left out at the call site, so that wrap_user_function's default applies
Default == "default"

\* the single-valued slots of config.code that this file assigns
Slots ==
    { "on_app_startup", "on_app_shutdown", "password_auth_callback",
      "header_auth_callback", "oauth_callback", "on_logout", "on_message",
      "on_window_message", "on_chat_start", "on_chat_resume",
      "set_chat_profiles", "set_starters", "on_chat_end", "on_audio_start",
      "on_audio_chunk", "on_audio_end", "author_rename", "on_mcp_connect",
      "on_mcp_disconnect", "on_stop", "on_settings_update", "data_layer",
      "on_feedback" }

\* chainlit.utils.wrap_user_function: a new callable around user_function
wrap_user_function(user_function, with_task) ==
    [kind |-> "wrapped", target |-> user_function, with_task |-> with_task]

\* chainlit.step.step used as a function: a new callable that runs func in a Step
step(func, name, type) ==
    [kind |-> "step", func |-> func, name |-> name, type |-> type]

\* the closure "with_parent_id" that on_message builds over func
with_parent_id_closure(func) ==
    [kind |-> "with_parent_id", func |-> func]

\* the closure "decorator" that action_callback builds over name
decorator_closure(name) ==
    [kind |-> "decorator", name |-> name]

\* the outcome of one call into the file: the configuration it leaves, what it
\* returns (or raises), and the user code and emitter calls it made on the way
Outcome(code, ret, events) ==
    [code |-> code, ret |-> ret, events |-> events]

\* config.code.<slot> = value
SetSlot(code, slot, value) ==
    [code EXCEPT ![slot] = value]

\* d[key] = value on a dict
DictSet(d, key, value) ==
    [k \in (DOMAIN d) \cup {key} |-> IF k = key THEN value ELSE d[k]]

EmptyDict == [k \in {} |-> None]

\* chainlit.oauth_providers.get_configured_oauth_providers
get_configured_oauth_providers == providers

----------------------------------------------------------------------------
(* The registration decorators, one operator per function of the file       *)

on_app_startup(code, func) ==
    Outcome(SetSlot(code, "on_app_startup", wrap_user_function(func, FALSE)),
            func, <<>>)

on_app_shutdown(code, func) ==
    Outcome(SetSlot(code, "on_app_shutdown", wrap_user_function(func, FALSE)),
            func, <<>>)

\* slip: stores the raw function
password_auth_callback_raw(code, func) ==
    Outcome(SetSlot(code, "password_auth_callback", func), func, <<>>)

password_auth_callback(code, func) ==
    Outcome(SetSlot(code, "password_auth_callback", wrap_user_function(func, Default)),
            func, <<>>)

header_auth_callback(code, func) ==
    Outcome(SetSlot(code, "header_auth_callback", wrap_user_function(func, Default)),
            func, <<>>)

\* slip: the slot is assigned before the providers are checked
oauth_callback_assigns_first(code, func) ==
    IF Cardinality(get_configured_oauth_providers) = 0
    THEN Outcome(SetSlot(code, "oauth_callback", wrap_user_function(func, Default)),
                 ValueError, <<>>)
    ELSE Outcome(SetSlot(code, "oauth_callback", wrap_user_function(func, Default)),
                 func, <<>>)

oauth_callback(code, func) ==
    IF Cardinality(get_configured_oauth_providers) = 0
    THEN Outcome(code, ValueError, <<>>)
    ELSE Outcome(SetSlot(code, "oauth_callback", wrap_user_function(func, Default)),
                 func, <<>>)

on_logout(code, func) ==
    Outcome(SetSlot(code, "on_logout", wrap_user_function(func, Default)),
            func, <<>>)

\* slip: hands back what was stored instead of func
on_message_returns_wrapper(code, func) ==
    Outcome(SetSlot(code, "on_message",
                    wrap_user_function(with_parent_id_closure(func), Default)),
            wrap_user_function(with_parent_id_closure(func), Default), <<>>)

on_message(code, func) ==
    Outcome(SetSlot(code, "on_message",
                    wrap_user_function(with_parent_id_closure(func), Default)),
            func, <<>>)

on_window_message(code, func) ==
    Outcome(SetSlot(code, "on_window_message", wrap_user_function(func, Default)),
            func, <<>>)

on_chat_start(code, func) ==
    Outcome(SetSlot(code, "on_chat_start",
                    wrap_user_function(step(func, "on_chat_start", "run"), TRUE)),
            func, <<>>)

\* slip: assigns the slot of the neighbouring hook
on_chat_resume_wrong_slot(code, func) ==
    Outcome(SetSlot(code, "on_chat_start", wrap_user_function(func, TRUE)),
            func, <<>>)

on_chat_resume(code, func) ==
    Outcome(SetSlot(code, "on_chat_resume", wrap_user_function(func, TRUE)),
            func, <<>>)

set_chat_profiles(code, func) ==
    Outcome(SetSlot(code, "set_chat_profiles", wrap_user_function(func, Default)),
            func, <<>>)

\* slip: assigns the slot of the neighbouring hook
set_starters_wrong_slot(code, func) ==
    Outcome(SetSlot(code, "set_chat_profiles", wrap_user_function(func, Default)),
            func, <<>>)

set_starters(code, func) ==
    Outcome(SetSlot(code, "set_starters", wrap_user_function(func, Default)),
            func, <<>>)

on_chat_end(code, func) ==
    Outcome(SetSlot(code, "on_chat_end", wrap_user_function(func, TRUE)),
            func, <<>>)

on_audio_start(code, func) ==
    Outcome(SetSlot(code, "on_audio_start", wrap_user_function(func, FALSE)),
            func, <<>>)

on_audio_chunk(code, func) ==
    Outcome(SetSlot(code, "on_audio_chunk", wrap_user_function(func, FALSE)),
            func, <<>>)

\* slip: func is called while registering
on_audio_end_calls_func(code, func) ==
    Outcome(SetSlot(code, "on_audio_end",
                    wrap_user_function(step(func, "on_audio_end", "run"), TRUE)),
            func, << [ev |-> "call", func |-> func, args |-> << >>] >>)

on_audio_end(code, func) ==
    Outcome(SetSlot(code, "on_audio_end",
                    wrap_user_function(step(func, "on_audio_end", "run"), TRUE)),
            func, <<>>)

author_rename(code, func) ==
    Outcome(SetSlot(code, "author_rename", wrap_user_function(func, Default)),
            func, <<>>)

on_mcp_connect(code, func) ==
    Outcome(SetSlot(code, "on_mcp_connect", wrap_user_function(func, Default)),
            func, <<>>)

on_mcp_disconnect(code, func) ==
    Outcome(SetSlot(code, "on_mcp_disconnect", wrap_user_function(func, Default)),
            func, <<>>)

\* slip: a slot already set is kept, the new function is dropped
on_stop_keeps_first(code, func) ==
    IF code.on_stop = None
    THEN Outcome(SetSlot(code, "on_stop", wrap_user_function(func, Default)),
                 func, <<>>)
    ELSE Outcome(code, func, <<>>)

on_stop(code, func) ==
    Outcome(SetSlot(code, "on_stop", wrap_user_function(func, Default)),
            func, <<>>)

on_settings_update(code, func) ==
    Outcome(SetSlot(code, "on_settings_update", wrap_user_function(func, TRUE)),
            func, <<>>)

\* slip: wraps like every other decorator
data_layer_wrapped(code, func) ==
    Outcome(SetSlot(code, "data_layer", wrap_user_function(func, Default)),
            func, <<>>)

data_layer(code, func) ==
    Outcome(SetSlot(code, "data_layer", func), func, <<>>)

on_feedback(code, func) ==
    Outcome(SetSlot(code, "on_feedback", wrap_user_function(func, Default)),
            func, <<>>)

\* action_callback(name): builds the decorator, touches nothing
action_callback(code, name) ==
    Outcome(code, decorator_closure(name), <<>>)

\* slip: the dict is replaced instead of updated
decorator_replaces_dict(code, name, func) ==
    Outcome(SetSlot(code, "action_callbacks",
                    DictSet(EmptyDict, name, wrap_user_function(func, FALSE))),
            func, <<>>)

\* the inner decorator(func) of action_callback(name)
decorator(code, name, func) ==
    Outcome(SetSlot(code, "action_callbacks",
                    DictSet(code.action_callbacks, name,
                            wrap_user_function(func, FALSE))),
            func, <<>>)

\* applying the decorator of a hook: a slot's decorator, or action_callback(name)'s
Register(hook, code, func) ==
    CASE hook = "on_app_startup" -> on_app_startup(code, func)
      [] hook = "on_app_shutdown" -> on_app_shutdown(code, func)
      [] hook = "password_auth_callback" -> password_auth_callback(code, func)
      [] hook = "header_auth_callback" -> header_auth_callback(code, func)
      [] hook = "oauth_callback" -> oauth_callback(code, func)
      [] hook = "on_logout" -> on_logout(code, func)
      [] hook = "on_message" -> on_message(code, func)
      [] hook = "on_window_message" -> on_window_message(code, func)
      [] hook = "on_chat_start" -> on_chat_start(code, func)
      [] hook = "on_chat_resume" -> on_chat_resume(code, func)
      [] hook = "set_chat_profiles" -> set_chat_profiles(code, func)
      [] hook = "set_starters" -> set_starters(code, func)
      [] hook = "on_chat_end" -> on_chat_end(code, func)
      [] hook = "on_audio_start" -> on_audio_start(code, func)
      [] hook = "on_audio_chunk" -> on_audio_chunk(code, func)
      [] hook = "on_audio_end" -> on_audio_end(code, func)
      [] hook = "author_rename" -> author_rename(code, func)
      [] hook = "on_mcp_connect" -> on_mcp_connect(code, func)
      [] hook = "on_mcp_disconnect" -> on_mcp_disconnect(code, func)
      [] hook = "on_stop" -> on_stop(code, func)
      [] hook = "on_settings_update" -> on_settings_update(code, func)
      [] hook = "data_layer" -> data_layer(code, func)
      [] hook = "on_feedback" -> on_feedback(code, func)
      [] hook \in Names -> decorator(code, hook, func)

\* send_window_message(data): hands data to the emitter, returns None
send_window_message(code, data) ==
    Outcome(code, None, << [ev |-> "send_window_message", data |-> data] >>)

----------------------------------------------------------------------------
(* Calling what was stored                                                  *)

\* slip: the signature is not looked at, func always gets the message
with_parent_id_always_passes(func, message) ==
    << [ev |-> "step_enter", name |-> "on_message", type |-> "run",
        parent_id |-> message.id],
       [ev |-> "set_input", input |-> message.content],
       [ev |-> "call", func |-> func, args |-> << message >>],
       [ev |-> "step_exit", name |-> "on_message"] >>

\* the body of with_parent_id(message), closed over func
with_parent_id(func, message) ==
    << [ev |-> "step_enter", name |-> "on_message", type |-> "run",
        parent_id |-> message.id],
       [ev |-> "set_input", input |-> message.content],
       IF func.arity > 0
       THEN [ev |-> "call", func |-> func, args |-> << message >>]
       ELSE [ev |-> "call", func |-> func, args |-> << >>],
       [ev |-> "step_exit", name |-> "on_message"] >>

\* what calling the stored callable with args runs
RECURSIVE Invoke(_, _)
Invoke(callable, args) ==
    CASE callable.kind = "function" ->
            << [ev |-> "call", func |-> callable, args |-> args] >>
      [] callable.kind = "wrapped" ->
            Invoke(callable.target, args)
      [] callable.kind = "step" ->
            << [ev |-> "step_enter", name |-> callable.name, type |-> callable.type,
                parent_id |-> "-"] >>
            \o Invoke(callable.func, args)
            \o << [ev |-> "step_exit", name |-> callable.name] >>
      [] callable.kind = "with_parent_id" ->
            with_parent_id(callable.func, args[1])

----------------------------------------------------------------------------
(* The state machine                                                        *)

Init ==
    /\ config = [s \in Slots \cup {"action_callbacks"} |->
                    IF s = "action_callbacks" THEN EmptyDict ELSE None]
    /\ before = config
    /\ providers \in SUBSET Providers
    /\ call = [op |-> "init", key |-> "-", arg |-> None, ret |-> None, events |-> <<>>]
    /\ latest = [hook \in Slots \cup Names |-> None]
    /\ ncalls = 0

\* one counted call into the file with outcome r
Do(op, key, arg, r) ==
    /\ ncalls < MaxCalls
    /\ ncalls' = ncalls + 1
    /\ before' = config
    /\ config' = r.code
    /\ call' = [op |-> op, key |-> key, arg |-> arg, ret |-> r.ret, events |-> r.events]
    /\ latest' = IF op \in Slots /\ r.ret # ValueError
                  THEN [latest EXCEPT ![op] = arg]
                  ELSE IF op = "decorator"
                       THEN [latest EXCEPT ![key] = arg]
                       ELSE latest
    /\ UNCHANGED providers

OnAppStartup == \E func \in Funcs : Do("on_app_startup", "-", func, on_app_startup(config, func))
OnAppShutdown == \E func \in Funcs : Do("on_app_shutdown", "-", func, on_app_shutdown(config, func))
PasswordAuthCallback == \E func \in Funcs : Do("password_auth_callback", "-", func, password_auth_callback(config, func))
HeaderAuthCallback == \E func \in Funcs : Do("header_auth_callback", "-", func, header_auth_callback(config, func))
OauthCallback == \E func \in Funcs : Do("oauth_callback", "-", func, oauth_callback(config, func))
OnLogout == \E func \in Funcs : Do("on_logout", "-", func, on_logout(config, func))
OnMessage == \E func \in Funcs : Do("on_message", "-", func, on_message(config, func))
OnWindowMessage == \E func \in Funcs : Do("on_window_message", "-", func, on_window_message(config, func))
OnChatStart == \E func \in Funcs : Do("on_chat_start", "-", func, on_chat_start(config, func))
OnChatResume == \E func \in Funcs : Do("on_chat_resume", "-", func, on_chat_resume(config, func))
SetChatProfiles == \E func \in Funcs : Do("set_chat_profiles", "-", func, set_chat_profiles(config, func))
SetStarters == \E func \in Funcs : Do("set_starters", "-", func, set_starters(config, func))
OnChatEnd == \E func \in Funcs : Do("on_chat_end", "-", func, on_chat_end(config, func))
OnAudioStart == \E func \in Funcs : Do("on_audio_start", "-", func, on_audio_start(config, func))
OnAudioChunk == \E func \in Funcs : Do("on_audio_chunk", "-", func, on_audio_chunk(config, func))
OnAudioEnd == \E func \in Funcs : Do("on_audio_end", "-", func, on_audio_end(config, func))
AuthorRename == \E func \in Funcs : Do("author_rename", "-", func, author_rename(config, func))
OnMcpConnect == \E func \in Funcs : Do("on_mcp_connect", "-", func, on_mcp_connect(config, func))
OnMcpDisconnect == \E func \in Funcs : Do("on_mcp_disconnect", "-", func, on_mcp_disconnect(config, func))
OnStop == \E func \in Funcs : Do("on_stop", "-", func, on_stop(config, func))
OnSettingsUpdate == \E func \in Funcs : Do("on_settings_update", "-", func, on_settings_update(config, func))
DataLayer == \E func \in Funcs : Do("data_layer", "-", func, data_layer(config, func))
OnFeedback == \E func \in Funcs : Do("on_feedback", "-", func, on_feedback(config, func))

\* action_callback(name) on its own: the decorator it returns is the call's result
ActionCallback ==
    \E name \in Names :
        LET r == action_callback(config, name) IN
        /\ ncalls < MaxCalls
        /\ before' = config
        /\ config' = r.code
        /\ call' = [op |-> "action_callback", key |-> name, arg |-> None,
                    ret |-> r.ret, events |-> r.events]
        /\ UNCHANGED <<providers, latest, ncalls>>

\* the decorator just returned by action_callback(name) is applied to func
Decorator ==
    /\ call.ret.kind = "decorator"
    /\ \E func \in Funcs :
          Do("decorator", call.ret.name, func, decorator(config, call.ret.name, func))

SendWindowMessage ==
    \E data \in WindowData :
        Do("send_window_message", "-", None, send_window_message(config, data))

\* the runtime calls config.code.<slot> with a message (or other payload)
RuntimeInvoke ==
    \E slot \in Slots, message \in Messages :
        /\ config[slot] # None
        /\ Do("invoke", slot, message,
              Outcome(config, None, Invoke(config[slot], << message >>)))

\* the runtime calls config.code.action_callbacks[name]
RuntimeInvokeAction ==
    \E name \in DOMAIN config.action_callbacks, message \in Messages :
        Do("invoke_action", name, message,
           Outcome(config, None, Invoke(config.action_callbacks[name], << message >>)))

\* the environment gains or loses the variables of an OAuth provider
SetEnviron ==
    \E P \in SUBSET Providers :
        /\ P # providers
        /\ providers' = P
        /\ before' = config
        /\ call' = [op |-> "environ", key |-> "-", arg |-> None, ret |-> None,
                    events |-> <<>>]
        /\ UNCHANGED <<config, latest, ncalls>>

Next ==
    \/ OnAppStartup \/ OnAppShutdown \/ PasswordAuthCallback
    \/ HeaderAuthCallback \/ OauthCallback \/ OnLogout \/ OnMessage
    \/ OnWindowMessage \/ OnChatStart \/ OnChatResume \/ SetChatProfiles
    \/ SetStarters \/ OnChatEnd \/ OnAudioStart \/ OnAudioChunk \/ OnAudioEnd
    \/ AuthorRename \/ OnMcpConnect \/ OnMcpDisconnect \/ OnStop
    \/ OnSettingsUpdate \/ DataLayer \/ OnFeedback
    \/ ActionCallback \/ Decorator \/ SendWindowMessage
    \/ RuntimeInvoke \/ RuntimeInvokeAction \/ SetEnviron

Spec == Init /\ [][Next]_vars

----------------------------------------------------------------------------
(* Vocabulary of the properties                                             *)

\* the calls that register: the decorators of the file and the inner decorator
Decorators == Slots \cup {"decorator"}

\* the last call was a registration that returned (did not raise)
Registered == call.op \in Decorators /\ call.ret # ValueError

\* what the hook of the last registration holds now
Stored ==
    IF call.op = "decorator"
    THEN IF call.key \in DOMAIN config.action_callbacks
         THEN config.action_callbacks[call.key]
         ELSE None
    ELSE IF call.op \in Slots THEN config[call.op] ELSE None

\* the user functions that calling a stored value can reach
RECURSIVE Reach(_)
Reach(callable) ==
    CASE callable.kind = "function" -> {callable}
      [] callable.kind = "wrapped" -> Reach(callable.target)
      [] callable.kind = "step" -> Reach(callable.func)
      [] callable.kind = "with_parent_id" -> Reach(callable.func)
      [] OTHER -> {}

\* the user-function calls among the events of the last call
UserCalls == { i \in 1..Len(call.events) : call.events[i].ev = "call" }

----------------------------------------------------------------------------
(* C1: every registration decorator that returns gives back exactly the      *)
(* function it was handed, never the wrapper it has just stored.            *)
C1_ReturnsOriginal ==
    Registered =>
        /\ call.ret = call.arg
        /\ call.op # "data_layer" => call.ret # Stored

C1_Witness ==
    /\ call.op = "on_message"
    /\ before.on_message # None
    /\ call.ret = call.arg
    /\ Stored # call.arg

(* C2: oauth_callback raises ValueError exactly when no OAuth provider is    *)
(* configured; a raise leaves the whole configuration as it was, a return   *)
(* leaves wrap_user_function(f) in the oauth_callback slot.                 *)
C2_OauthPrecondition ==
    call.op = "oauth_callback" =>
        /\ (call.ret = ValueError) <=> (providers = {})
        /\ call.ret = ValueError => config = before
        /\ call.ret # ValueError =>
              config.oauth_callback = wrap_user_function(call.arg, Default)

C2_Witness ==
    /\ call.op = "oauth_callback"
    /\ call.ret = ValueError
    /\ config.oauth_callback # None

(* C3: every single-valued slot is either unset or holds one callback, the   *)
(* one built from the most recent successful registration on that slot; an  *)
(* earlier function is no longer reachable from the slot.                   *)
C3_LatestWins ==
    \A s \in Slots :
        IF latest[s] = None
        THEN config[s] = None
        ELSE Reach(config[s]) = {latest[s]}

C3_Witness ==
    /\ call.op = "on_stop"
    /\ before.on_stop # None
    /\ config.on_stop # before.on_stop

(* C4, as stated: once a slot is set its value never changes again.         *)
C4_WriteOnce ==
    [][\A s \in Slots : config[s] # None => config'[s] = config[s]]_vars

(* C4, amended: a slot that is set is never unset again, and its value       *)
(* changes only by a later successful registration on that same slot,       *)
(* which overwrites it with the callback built from the new function.       *)
C4_SetStaysSet ==
    [][\A s \in Slots :
          config[s] # None =>
              /\ config'[s] # None
              /\ config'[s] # config[s] =>
                    /\ call'.op = s
                    /\ call'.ret # ValueError
                    /\ Reach(config'[s]) = {call'.arg}]_vars

C4_Witness ==
    /\ call.op = "on_chat_start"
    /\ before.on_chat_start # None
    /\ config.on_chat_start # before.on_chat_start
    /\ config.on_chat_start # None

(* C5, as stated: after a decorator is applied to f its slot equals f.      *)
C5_SlotIsFunction ==
    Registered => Stored = call.arg

(* C5, amended: after a decorator is applied to f its slot holds a callable  *)
(* that reaches f and nothing else; it is f itself for data_layer only, and *)
(* a different callable for every other decorator.                          *)
C5_SlotReachesFunction ==
    Registered =>
        /\ Reach(Stored) = {call.arg}
        /\ (Stored = call.arg) <=> (call.op = "data_layer")

C5_Witness ==
    /\ call.op = "password_auth_callback"
    /\ Stored # call.arg
    /\ Reach(Stored) = {call.arg}

(* C6, as stated: every public function of the file stores the result of    *)
(* wrap_user_function, never the raw function, never nothing.               *)
C6_AllStoreWrapped ==
    call.op \in Decorators \cup {"action_callback", "send_window_message"} =>
        /\ Stored.kind = "wrapped"
        /\ Reach(Stored) = {call.arg}

(* C6, amended: every registration decorator other than data_layer, when it  *)
(* returns, stores the result of wrap_user_function over the function or a  *)
(* callable built from it; data_layer stores the raw function;              *)
(* send_window_message, action_callback(name) before its decorator is       *)
(* applied, and an oauth_callback that raises leave the configuration as    *)
(* it was.                                                                  *)
C6_StoreWrappedExceptDataLayer ==
    /\ Registered /\ call.op # "data_layer" =>
          /\ Stored.kind = "wrapped"
          /\ Reach(Stored) = {call.arg}
    /\ call.op = "data_layer" => Stored = call.arg /\ Stored.kind = "function"
    /\ \/ call.op \in {"send_window_message", "action_callback"}
       \/ call.ret = ValueError
       => config = before

C6_Witness ==
    /\ call.op = "send_window_message"
    /\ config = before
    /\ config.data_layer.kind = "function"

(* C7: a successful registration changes only its own slot (the inner        *)
(* decorator: only the action_callbacks entry of its name); so registering  *)
(* on two distinct hooks gives the same configuration in either order.      *)
C7_SlotsIndependent ==
    /\ Registered /\ call.op \in Slots =>
          /\ \A s \in Slots \ {call.op} : config[s] = before[s]
          /\ config.action_callbacks = before.action_callbacks
    /\ call.op = "decorator" =>
          /\ \A s \in Slots : config[s] = before[s]
          /\ DOMAIN config.action_callbacks =
                DOMAIN before.action_callbacks \cup {call.key}
          /\ \A n \in DOMAIN before.action_callbacks \ {call.key} :
                config.action_callbacks[n] = before.action_callbacks[n]
    /\ Registered /\ ncalls < MaxCalls =>
          \A hook \in (Slots \cup Names) \ {call.op, call.key}, func \in Funcs :
              Register(hook, config, func).code =
                  Register(IF call.op = "decorator" THEN call.key ELSE call.op,
                           Register(hook, before, func).code, call.arg).code

C7_Witness ==
    /\ call.op = "set_starters"
    /\ call.ret = call.arg
    /\ config.set_chat_profiles # None
    /\ config.set_chat_profiles = before.set_chat_profiles
    /\ config.set_starters # before.set_starters

(* C8: action_callbacks maps every name ever registered to the wrapper of    *)
(* the last function registered under it, and holds no other name; names    *)
(* coexist, a later registration under a name replaces the earlier one, and *)
(* action_callback(name) alone changes nothing.                             *)
C8_ActionRegistry ==
    /\ DOMAIN config.action_callbacks = { n \in Names : latest[n] # None }
    /\ \A n \in DOMAIN config.action_callbacks :
          config.action_callbacks[n] = wrap_user_function(latest[n], FALSE)
    /\ call.op = "action_callback" => config = before

C8_Witness ==
    /\ call.op = "decorator"
    /\ DOMAIN config.action_callbacks = Names
    /\ config.action_callbacks["a1"] # config.action_callbacks["a2"]

(* C9: invoking what on_message(f) stored with a message m calls f exactly   *)
(* once, with m alone if f declares a parameter and with nothing if not,    *)
(* inside a Step named on_message of type run with parent_id m.id, after    *)
(* the step's input was set to m.content.                                   *)
C9_OnMessageInvocation ==
    call.op = "invoke" /\ call.key = "on_message" =>
        /\ Len(call.events) = 4
        /\ call.events[1] = [ev |-> "step_enter", name |-> "on_message",
                             type |-> "run", parent_id |-> call.arg.id]
        /\ call.events[2] = [ev |-> "set_input", input |-> call.arg.content]
        /\ call.events[3] =
              [ev |-> "call", func |-> latest.on_message,
               args |-> IF latest.on_message.arity > 0 THEN << call.arg >> ELSE << >>]
        /\ call.events[4].ev = "step_exit"
        /\ UserCalls = {3}

C9_Witness ==
    /\ call.op = "invoke"
    /\ call.key = "on_message"
    /\ latest.on_message.arity = 0
    /\ call.events[3].args = << >>

(* C10: no registration call runs user code, and when a decorator returns    *)
(* its slot is set; a user function runs only when the runtime invokes a    *)
(* slot, and then it is a function whose registration was already complete. *)
C10_RegistrationRunsNothing ==
    /\ call.op \in Decorators \cup {"action_callback"} => call.events = << >>
    /\ Registered => Stored # None
    /\ UserCalls # {} =>
          /\ call.op \in {"invoke", "invoke_action"}
          /\ latest[call.key] # None
          /\ \A i \in UserCalls : call.events[i].func = latest[call.key]

C10_Witness ==
    /\ call.op = "invoke"
    /\ call.key = "on_audio_end"
    /\ UserCalls # {}

====
